---- MODULE Spec2Model ----
(***************************************************************************)
(* Recording controller of GameOverlay (src/src/main.py): the record       *)
(* button toggles a session, start_recording opens a cv2.VideoWriter and   *)
(* runs the first capture step, record_frame re-arms itself with           *)
(* QTimer.singleShot, stop_recording releases the writer, and the          *)
(* configuration dialog edits the parameters used by the next start.       *)
(*                                                                         *)
(* Library behaviour the handlers rely on:                                 *)
(*  - cv2.VideoWriter(...) either opens the file, or returns a writer      *)
(*    whose isOpened() is false (unwritable path, codec not available),    *)
(*    or raises cv2.error, depending on the OpenCV build;                  *)
(*  - write() on a writer that is not open stores nothing; write() of a    *)
(*    frame whose size differs from the size the writer was opened with    *)
(*    stores nothing; release() of a released writer does nothing;         *)
(*  - pyautogui.screenshot() returns the whole screen or raises;           *)
(*  - no handler catches exceptions: an exception leaving a slot ends the  *)
(*    process (PyQt5 calls qFatal) unless the environment has installed   *)
(*    an exception hook, in which case the traceback is printed and the    *)
(*    event loop goes on.                                                  *)
(***************************************************************************)
EXTENDS Integers, Sequences, FiniteSets

VARIABLES
    recording,          \* self.recording
    btnText,            \* self.record_btn.text()
    record_file_name,   \* self.record_file_name
    record_resolution,  \* self.record_resolution, <<width, height>>
    record_fps,         \* self.record_fps
    record_quality,     \* self.record_quality
    out,                \* self.out: index into writers, 0 = attribute not set
    writers,            \* every cv2.VideoWriter created so far
    timers,             \* pending QTimer.singleShot(ms, self.record_frame), the delays
    dialogOpen,         \* open_record_config is inside dialog.exec()
    dlg,                \* contents of the dialog's input widgets
    app,                \* "running", "exited" (app.exec_ returned), "aborted"
    excMode,            \* what an exception leaving a slot does: "abort" or "continue"
    errors,             \* unhandled exceptions reported so far
    accepts,            \* configuration dialogs accepted so far
    replacedOpen,       \* self.out was overwritten while it held an open writer
    elapsed_time,       \* GameTimerWidget.elapsed_time
    is_running,         \* GameTimerWidget.is_running
    time_label,         \* GameTimerWidget.time_label.text(), a sequence of characters
    qtActive,           \* GameTimerWidget.timer.isActive()
    qtRemaining,        \* milliseconds until GameTimerWidget.timer times out
    startIgnored,       \* start_timer was called while the timer was running
    stoppedFrom,        \* state stop_timer was last called in, "none" once restarted
    resumed,            \* start_timer restarted the timer from a retained elapsed time
    status_label,       \* SpotifyWidget.status_label.text()
    clearTimers,        \* milliseconds left of each pending single shot of show_error
    labelAge,           \* milliseconds since show_error last set the label, capped
    shows,              \* calls of show_error so far
    screen,             \* what pyautogui.size() returns now
    resized,            \* the screen size has changed since the overlays were constructed
    u_recording,        \* ubuntu_converted.py: GameOverlay.recording
    u_btnText,          \* ubuntu_converted.py: record_btn.text()
    u_out,              \* ubuntu_converted.py: self.out, index into u_writers, 0 = never set
    u_writers,          \* ubuntu_converted.py: every cv2.VideoWriter created so far
    u_timers,           \* ubuntu_converted.py: pending single shots of record_frame
    u_app               \* ubuntu_converted.py: state of the process

timerState == <<elapsed_time, is_running, time_label, qtActive, qtRemaining>>

gtVars == <<timerState, startIgnored, stoppedFrom, resumed>>

recVars == <<recording, btnText, record_file_name, record_resolution, record_fps,
             record_quality, out, writers, timers, dialogOpen, dlg, app, excMode,
             errors, accepts, replacedOpen>>

spVars == <<status_label, clearTimers, labelAge, shows>>

envVars == <<screen, resized>>

ubVars == <<u_recording, u_btnText, u_out, u_writers, u_timers, u_app>>

vars == <<recVars, gtVars, spVars, envVars, ubVars>>

cfgVars == <<record_file_name, record_resolution, record_fps, record_quality>>

----------------------------------------------------------------------------
(* Bounds of the model *)

MaxSessions == 2    \* writers created in one run
MaxWrites == 3      \* capture steps in one run
MaxErrors == 1      \* exceptions raised in one run
MaxAccepts == 1     \* configuration dialogs accepted in one run
MaxElapsed == 3700  \* seconds counted by the game timer in one run
MaxShows == 3       \* calls of SpotifyWidget.show_error in one run

(* Program constants *)

TimerDelay == 50
TimerInterval == 1000
ErrorDuration == 3000
TimeQuantum == 500  \* granularity at which the passing of time is observed
DefaultFps == 20
DefaultQuality == 95
SpinResMin == 100
SpinResMax == 10000
SpinFpsMin == 1
SpinFpsMax == 120
SpinQualityMin == 1
SpinQualityMax == 100

DefaultFileName == "output.avi"

(* pyautogui.size(): the size of the primary screen *)
ScreenSize == <<1920, 1080>>
ScreenSizes == {ScreenSize, <<1280, 720>>}   \* display modes the screen can be put in

(* Values the user enters in the dialog; an input left alone keeps the value
   the dialog was opened with *)
FileNameInputs == {"output.avi"}
ResolutionInputs == {<<640, 480>>}
FpsInputs == {10}
QualityInputs == {95}

OpenOutcomes == {"ok", "unopened", "raise"}   \* of cv2.VideoWriter(...)
CaptureOutcomes == {"ok", "raise"}            \* of pyautogui.screenshot()
ExcModes == {"abort", "continue"}
ErrorMessages == {"Not connected to Spotify", "No active device"}

----------------------------------------------------------------------------
(* cv2.VideoWriter as the handlers use it *)

(* cv2.VideoWriter called with the quality in the place of the frame rate *)
NewWriter_qualityAsFps(ok) ==
    [ok |-> ok, file |-> record_file_name, size |-> record_resolution,
     fps |-> record_quality,
     frames |-> 0, bad |-> 0, late |-> 0, releases |-> 0, steps |-> 0,
     failedAt |-> 0]

NewWriter(ok) ==
    [ok |-> ok, file |-> record_file_name, size |-> record_resolution,
     fps |-> record_fps,
     frames |-> 0,      \* frames stored in the file
     bad |-> 0,         \* frames handed over with another size than opened with
     late |-> 0,        \* write() calls while the writer was not open
     releases |-> 0,    \* release() calls, the destructor's included
     steps |-> 0,       \* capture steps run with this writer in self.out
     failedAt |-> 0]    \* the step whose capture raised, 0 = none

IsOpened(w) == w.ok /\ w.releases = 0

(* write(frame) for a frame of the given size *)
Write(w, size) ==
    [w EXCEPT !.frames = IF IsOpened(w) /\ size = w.size THEN @ + 1 ELSE @,
              !.bad = IF size # w.size THEN @ + 1 ELSE @,
              !.late = IF ~IsOpened(w) THEN @ + 1 ELSE @]

Release(w) == [w EXCEPT !.releases = @ + 1]

RECURSIVE SumSteps(_)
SumSteps(ws) == IF ws = <<>> THEN 0 ELSE Head(ws).steps + SumSteps(Tail(ws))

Last(s) == s[Len(s)]

----------------------------------------------------------------------------
(* No RecordingConfigDialog exists *)
NoDialog == [file |-> "", size |-> <<0, 0>>, fps |-> 0, quality |-> 0]

(* An exception leaves the running slot *)

Raise ==
    /\ errors' = errors + 1
    /\ app' = IF excMode = "abort" THEN "aborted" ELSE app

NoRaise == UNCHANGED <<errors, app>>

MayFail(outcome) == outcome = "raise" => errors < MaxErrors

----------------------------------------------------------------------------
(* GameOverlay *)

Init ==
    /\ recording = FALSE
    /\ btnText = "Start Recording"
    /\ record_file_name = DefaultFileName
    /\ record_resolution = ScreenSize
    /\ record_fps = DefaultFps
    /\ record_quality = DefaultQuality
    /\ out = 0
    /\ writers = <<>>
    /\ timers = <<>>
    /\ dialogOpen = FALSE
    /\ dlg = NoDialog
    /\ app = "running"
    /\ excMode \in ExcModes
    /\ errors = 0
    /\ accepts = 0
    /\ replacedOpen = FALSE
    /\ elapsed_time = 0
    /\ is_running = FALSE
    /\ time_label = <<"0", "0", ":", "0", "0", ":", "0", "0">>
    /\ qtActive = FALSE
    /\ qtRemaining = 0
    /\ startIgnored = FALSE
    /\ stoppedFrom = "none"
    /\ resumed = FALSE
    /\ status_label = ""
    /\ clearTimers = <<>>
    /\ labelAge = 0
    /\ shows = 0
    /\ screen = ScreenSize
    /\ resized = FALSE
    /\ u_recording = FALSE
    /\ u_btnText = "Start Recording"
    /\ u_out = 0
    /\ u_writers = <<>>
    /\ u_timers = <<>>
    /\ u_app = "running"

(* record_frame without the test of self.recording *)
record_frame_noguard(rec, ws, o, ts, cap) ==
    IF cap = "raise"
    THEN /\ writers' = IF o = 0 THEN ws
                       ELSE [ws EXCEPT ![o].steps = @ + 1,
                                       ![o].failedAt = ws[o].steps + 1]
         /\ timers' = ts
         /\ Raise
    ELSE IF o = 0
    THEN /\ writers' = ws
         /\ timers' = ts
         /\ Raise
    ELSE /\ writers' = [ws EXCEPT ![o] = Write([@ EXCEPT !.steps = @ + 1], screen)]
         /\ timers' = Append(ts, TimerDelay)
         /\ NoRaise

(* record_frame that arms the next tick first, before the capture and the
   write: the tick stays armed when the capture raises *)
record_frame_armfirst(rec, ws, o, ts, cap) ==
    IF ~rec
    THEN /\ writers' = ws
         /\ timers' = ts
         /\ NoRaise
    ELSE IF cap = "raise"
    THEN /\ writers' = IF o = 0 THEN ws
                       ELSE [ws EXCEPT ![o].steps = @ + 1,
                                       ![o].failedAt = ws[o].steps + 1]
         /\ timers' = Append(ts, TimerDelay)
         /\ Raise
    ELSE IF o = 0
    THEN /\ writers' = ws
         /\ timers' = Append(ts, TimerDelay)
         /\ Raise
    ELSE /\ writers' = [ws EXCEPT ![o] = Write([@ EXCEPT !.steps = @ + 1], screen)]
         /\ timers' = Append(ts, TimerDelay)
         /\ NoRaise

(* record_frame, run with self.recording = rec, the writers ws, self.out = o
   and the pending timers ts *)
record_frame(rec, ws, o, ts, cap) ==
    IF ~rec
    THEN /\ writers' = ws
         /\ timers' = ts
         /\ NoRaise
    ELSE IF cap = "raise"
    THEN /\ writers' = IF o = 0 THEN ws
                       ELSE [ws EXCEPT ![o].steps = @ + 1,
                                       ![o].failedAt = ws[o].steps + 1]
         /\ timers' = ts
         /\ Raise
    ELSE IF o = 0
    THEN /\ writers' = ws          \* self.out: AttributeError
         /\ timers' = ts
         /\ Raise
    ELSE /\ writers' = [ws EXCEPT ![o] = Write([@ EXCEPT !.steps = @ + 1], screen)]
         /\ timers' = Append(ts, TimerDelay)
         /\ NoRaise

start_recording(oc, cap) ==
    IF oc = "raise"
    THEN /\ UNCHANGED <<out, writers, timers, replacedOpen>>
         /\ Raise
    ELSE LET dropped == out # 0 /\ IsOpened(writers[out])
             old == IF dropped THEN [writers EXCEPT ![out] = Release(@)] ELSE writers
             ws == Append(old, NewWriter(oc = "ok"))
         IN  /\ out' = Len(ws)
             /\ replacedOpen' = (replacedOpen \/ dropped)
             /\ record_frame(recording', ws, Len(ws), timers, cap)

(* stop_recording that does not release the writer *)
stop_result_norelease(ws, o) == [writers |-> ws, raised |-> FALSE]

(* stop_recording without the hasattr test: AttributeError when self.out was
   never set *)
stop_result_nohasattr(ws, o) ==
    IF o = 0 THEN [writers |-> ws, raised |-> TRUE]
    ELSE [writers |-> [ws EXCEPT ![o] = Release(@)], raised |-> FALSE]

(* stop_recording as a function of the writers ws and self.out = o: the
   writers afterwards and whether the call raised *)
stop_result(ws, o) ==
    [writers |-> IF o # 0 THEN [ws EXCEPT ![o] = Release(@)] ELSE ws,
     raised |-> FALSE]

stop_recording ==
    LET r == stop_result(writers, out)
    IN  /\ writers' = r.writers
        /\ IF r.raised THEN Raise ELSE NoRaise
        /\ UNCHANGED <<out, timers, replacedOpen>>

(* toggle_recording with the branches exchanged: stops when the flag has
   become true and starts when it has become false *)
ToggleRecording_inverted(oc, cap) ==
    /\ app = "running"
    /\ ~dialogOpen
    /\ recording' = ~recording
    /\ btnText' = IF recording' THEN "Stop Recording" ELSE "Start Recording"
    /\ IF ~recording'
       THEN /\ Len(writers) < MaxSessions
            /\ SumSteps(writers) < MaxWrites
            /\ MayFail(oc)
            /\ MayFail(cap)
            /\ start_recording(oc, cap)
       ELSE /\ oc = "ok"
            /\ cap = "ok"
            /\ stop_recording
    /\ UNCHANGED <<cfgVars, dialogOpen, dlg, excMode, accepts>>
    /\ UNCHANGED <<gtVars, spVars, envVars, ubVars>>

(* toggle_recording, the other widgets and programs left aside *)
toggle_recording(oc, cap) ==
    /\ app = "running"
    /\ ~dialogOpen
    /\ recording' = ~recording
    /\ btnText' = IF recording' THEN "Stop Recording" ELSE "Start Recording"
    /\ IF recording'
       THEN /\ Len(writers) < MaxSessions
            /\ SumSteps(writers) < MaxWrites
            /\ MayFail(oc)
            /\ MayFail(cap)
            /\ start_recording(oc, cap)
       ELSE /\ oc = "ok"
            /\ cap = "ok"
            /\ stop_recording
    /\ UNCHANGED <<cfgVars, dialogOpen, dlg, excMode, accepts>>

(* Click on the record button *)
ToggleRecording(oc, cap) ==
    /\ toggle_recording(oc, cap)
    /\ UNCHANGED <<gtVars, spVars, envVars, ubVars>>

(* The oldest pending single shot runs record_frame, the other widgets and
   programs left aside *)
timer_fired(cap) ==
    /\ app = "running"
    /\ timers # <<>>
    /\ IF recording
       THEN SumSteps(writers) < MaxWrites /\ MayFail(cap)
       ELSE cap = "ok"
    /\ record_frame(recording, writers, out, Tail(timers), cap)
    /\ UNCHANGED <<recording, btnText, cfgVars, out, dialogOpen, dlg, excMode,
                   accepts, replacedOpen>>

(* A pending single-shot timer fires *)
Tick(cap) ==
    /\ timer_fired(cap)
    /\ UNCHANGED <<gtVars, spVars, envVars, ubVars>>

(* QSpinBox.setValue keeps the value inside [minimum, maximum] *)
Clamp(v, lo, hi) == IF v < lo THEN lo ELSE IF v > hi THEN hi ELSE v

(* open_record_config up to dialog.exec(): RecordingConfigDialog.__init__ *)
OpenRecordConfig ==
    /\ app = "running"
    /\ ~dialogOpen
    /\ dialogOpen' = TRUE
    /\ dlg' = [file |-> record_file_name,
               size |-> <<Clamp(record_resolution[1], SpinResMin, SpinResMax),
                          Clamp(record_resolution[2], SpinResMin, SpinResMax)>>,
               fps |-> Clamp(record_fps, SpinFpsMin, SpinFpsMax),
               quality |-> Clamp(record_quality, SpinQualityMin, SpinQualityMax)]
    /\ UNCHANGED <<recording, btnText, cfgVars, out, writers, timers, app,
                   excMode, errors, accepts, replacedOpen>>
    /\ UNCHANGED <<gtVars, spVars, envVars, ubVars>>

(* RecordingConfigDialog.get_config *)
get_config(d) == <<d.file, d.size, d.fps, d.quality>>

(* The user edits the inputs and presses OK: dialog.exec() returns Accepted *)
DialogAccept ==
    /\ app = "running"
    /\ dialogOpen
    /\ accepts < MaxAccepts
    /\ \E f \in FileNameInputs \cup {dlg.file},
          r \in ResolutionInputs \cup {dlg.size},
          fps \in FpsInputs \cup {dlg.fps},
          q \in QualityInputs \cup {dlg.quality} :
          LET c == get_config([file |-> f, size |-> r, fps |-> fps, quality |-> q])
          IN  /\ record_file_name' = c[1]
              /\ record_resolution' = c[2]
              /\ record_fps' = c[3]
              /\ record_quality' = c[4]
    /\ dialogOpen' = FALSE
    /\ dlg' = NoDialog
    /\ accepts' = accepts + 1
    /\ UNCHANGED <<recording, btnText, out, writers, timers, app, excMode,
                   errors, replacedOpen>>
    /\ UNCHANGED <<gtVars, spVars, envVars, ubVars>>

(* More of what the user can enter: an empty file name (QLineEdit accepts any
   text) and the ends of the quality range *)
FileNameEdits == {""}
QualityEdits == {1, 100}

(* As DialogAccept, the user editing the file name and the quality only *)
DialogAcceptEdited ==
    /\ app = "running"
    /\ dialogOpen
    /\ accepts < MaxAccepts
    /\ \E f \in FileNameEdits \cup {dlg.file},
          r \in {dlg.size},
          fps \in {dlg.fps},
          q \in QualityEdits \cup {dlg.quality} :
          LET c == get_config([file |-> f, size |-> r, fps |-> fps, quality |-> q])
          IN  /\ record_file_name' = c[1]
              /\ record_resolution' = c[2]
              /\ record_fps' = c[3]
              /\ record_quality' = c[4]
    /\ dialogOpen' = FALSE
    /\ dlg' = NoDialog
    /\ accepts' = accepts + 1
    /\ UNCHANGED <<recording, btnText, out, writers, timers, app, excMode,
                   errors, replacedOpen>>
    /\ UNCHANGED <<gtVars, spVars, envVars, ubVars>>

(* The user presses Cancel: dialog.exec() returns Rejected *)
DialogReject ==
    /\ app = "running"
    /\ dialogOpen
    /\ dialogOpen' = FALSE
    /\ dlg' = NoDialog
    /\ UNCHANGED <<recording, btnText, cfgVars, out, writers, timers, app,
                   excMode, errors, accepts, replacedOpen>>
    /\ UNCHANGED <<gtVars, spVars, envVars, ubVars>>

(* The window is closed or the process is told to exit: app.exec_() returns
   and sys.exit runs.  No handler releases the writer; whether interpreter
   shutdown runs the writer's destructor is not guaranteed. *)
Shutdown(fin) ==
    /\ app = "running"
    /\ app' = "exited"
    /\ IF out # 0 /\ IsOpened(writers[out])
       THEN writers' = IF fin THEN [writers EXCEPT ![out] = Release(@)] ELSE writers
       ELSE fin = FALSE /\ writers' = writers
    /\ UNCHANGED <<recording, btnText, cfgVars, out, timers, dialogOpen, dlg,
                   excMode, errors, accepts, replacedOpen>>
    /\ UNCHANGED <<gtVars, spVars, envVars, ubVars>>

Next ==
    \/ \E oc \in OpenOutcomes, cap \in CaptureOutcomes : ToggleRecording(oc, cap)
    \/ \E cap \in CaptureOutcomes : Tick(cap)
    \/ OpenRecordConfig
    \/ DialogAccept
    \/ DialogReject
    \/ \E fin \in BOOLEAN : Shutdown(fin)

Spec == Init /\ [][Next]_vars

NextConfig ==
    \/ \E oc \in OpenOutcomes, cap \in CaptureOutcomes : ToggleRecording(oc, cap)
    \/ \E cap \in CaptureOutcomes : Tick(cap)
    \/ OpenRecordConfig
    \/ DialogAcceptEdited
    \/ DialogReject
    \/ \E fin \in BOOLEAN : Shutdown(fin)

(* The same program, the user editing the file name and the quality *)
SpecConfig == Init /\ [][NextConfig]_vars

(* The event loop fires every timer that is due *)
SpecFair == Spec /\ WF_vars(\E cap \in CaptureOutcomes : Tick(cap))

(* ---------------------------- GameTimerWidget ---------------------------- *)

Digit(n) == <<"0", "1", "2", "3", "4", "5", "6", "7", "8", "9">>[n + 1]

RECURSIVE Digits(_)
Digits(n) == IF n < 10 THEN <<Digit(n)>> ELSE Digits(n \div 10) \o <<Digit(n % 10)>>

(* f"{n:02d}": at least two digits, zero padded *)
Format02d(n) == IF n < 10 THEN <<"0", Digit(n)>> ELSE Digits(n)

(* update_display with the seconds taken without the remainder by 60 *)
update_display_rawseconds(e) ==
    LET hours == e \div 3600
        minutes == (e % 3600) \div 60
        seconds == e
    IN  Format02d(hours) \o <<":">> \o Format02d(minutes) \o <<":">> \o Format02d(seconds)

(* The text update_display sets for an elapsed time of e seconds *)
update_display(e) ==
    LET hours == e \div 3600
        minutes == (e % 3600) \div 60
        seconds == e % 60
    IN  Format02d(hours) \o <<":">> \o Format02d(minutes) \o <<":">> \o Format02d(seconds)

(* start_timer without its test of is_running: QTimer.start restarts the interval *)
start_timer_noguard ==
    /\ app = "running"
    /\ qtActive' = TRUE
    /\ qtRemaining' = TimerInterval
    /\ is_running' = TRUE
    /\ startIgnored' = (startIgnored \/ is_running)
    /\ stoppedFrom' = "none"
    /\ resumed' = (resumed \/ (~is_running /\ elapsed_time > 0))
    /\ UNCHANGED <<elapsed_time, time_label, recVars, spVars, envVars, ubVars>>

(* Click on Start *)
start_timer ==
    /\ app = "running"
    /\ IF ~is_running
       THEN /\ qtActive' = TRUE
            /\ qtRemaining' = TimerInterval
            /\ is_running' = TRUE
            /\ stoppedFrom' = "none"
            /\ resumed' = (resumed \/ elapsed_time > 0)
            /\ UNCHANGED startIgnored
       ELSE /\ startIgnored' = TRUE
            /\ UNCHANGED <<qtActive, qtRemaining, is_running, stoppedFrom, resumed>>
    /\ UNCHANGED <<elapsed_time, time_label, recVars, spVars, envVars, ubVars>>

(* Click on Pause *)
pause_timer ==
    /\ app = "running"
    /\ IF is_running
       THEN /\ qtActive' = FALSE
            /\ qtRemaining' = 0
            /\ is_running' = FALSE
       ELSE UNCHANGED <<qtActive, qtRemaining, is_running>>
    /\ UNCHANGED <<elapsed_time, time_label, startIgnored, stoppedFrom, resumed, recVars, spVars, envVars, ubVars>>

(* The state of the timer as the user sees it *)
TimerPhase ==
    IF is_running THEN "running" ELSE IF elapsed_time > 0 THEN "paused" ELSE "idle"

(* stop_timer without self.timer.stop() *)
stop_timer_nostop ==
    /\ app = "running"
    /\ elapsed_time' = 0
    /\ is_running' = FALSE
    /\ time_label' = update_display(0)
    /\ stoppedFrom' = TimerPhase
    /\ resumed' = FALSE
    /\ UNCHANGED <<qtActive, qtRemaining, startIgnored, recVars, spVars, envVars, ubVars>>

(* Click on Stop *)
stop_timer ==
    /\ app = "running"
    /\ qtActive' = FALSE
    /\ qtRemaining' = 0
    /\ elapsed_time' = 0
    /\ is_running' = FALSE
    /\ time_label' = update_display(0)
    /\ stoppedFrom' = TimerPhase
    /\ resumed' = FALSE
    /\ UNCHANGED <<startIgnored, recVars, spVars, envVars, ubVars>>

(* Time passes while the Qt timer is active *)
Advance ==
    /\ app = "running"
    /\ qtActive
    /\ qtRemaining > 0
    /\ qtRemaining' = qtRemaining - TimeQuantum
    /\ UNCHANGED <<elapsed_time, is_running, time_label, qtActive, startIgnored,
                   stoppedFrom, resumed, recVars, spVars, envVars, ubVars>>

(* The Qt timer times out, runs the slot update_timer and starts its next interval *)
update_timer ==
    /\ app = "running"
    /\ qtActive
    /\ qtRemaining = 0
    /\ elapsed_time < MaxElapsed
    /\ elapsed_time' = elapsed_time + 1
    /\ time_label' = update_display(elapsed_time + 1)
    /\ qtRemaining' = TimerInterval
    /\ UNCHANGED <<is_running, qtActive, startIgnored, stoppedFrom, resumed, recVars, spVars, envVars, ubVars>>

NextTimer ==
    \/ start_timer
    \/ pause_timer
    \/ stop_timer
    \/ Advance
    \/ update_timer

SpecTimer == Init /\ [][NextTimer]_vars

(* ----------------------------- SpotifyWidget ----------------------------- *)

(* Every pending single shot is one quantum closer to firing *)
Elapse(q) == [i \in 1..Len(q) |-> q[i] - TimeQuantum]

(* show_error, called by setup_spotify, update_track_info, toggle_playback
   or next_track *)
show_error(message) ==
    /\ app = "running"
    /\ shows < MaxShows
    /\ shows' = shows + 1
    /\ status_label' = message
    /\ clearTimers' = Append(clearTimers, ErrorDuration)
    /\ labelAge' = 0
    /\ UNCHANGED <<recVars, gtVars, envVars, ubVars>>

(* The lambda armed by show_error runs: the oldest single shot is the one due *)
ClearStatus ==
    /\ app = "running"
    /\ clearTimers # <<>>
    /\ Head(clearTimers) = 0
    /\ status_label' = ""
    /\ clearTimers' = Tail(clearTimers)
    /\ UNCHANGED <<labelAge, shows, recVars, gtVars, envVars, ubVars>>

(* Time passes while single shots are pending and none of them is due *)
AdvanceStatus ==
    /\ app = "running"
    /\ clearTimers # <<>>
    /\ Head(clearTimers) > 0
    /\ clearTimers' = Elapse(clearTimers)
    /\ labelAge' = IF labelAge < ErrorDuration THEN labelAge + TimeQuantum ELSE labelAge
    /\ UNCHANGED <<status_label, shows, recVars, gtVars, envVars, ubVars>>

NextSpotify ==
    \/ \E message \in ErrorMessages : show_error(message)
    \/ ClearStatus
    \/ AdvanceStatus

SpecSpotify == Init /\ [][NextSpotify]_vars

(* ------------------ Scripts/ubuntu_converted.py: GameOverlay ------------------ *)

(* cv2.VideoWriter opened with another file name than 'output.avi' *)
u_NewWriter_otherfile(ok) ==
    [ok |-> ok, file |-> "capture.avi", size |-> screen, fps |-> 20,
     frames |-> 0, bad |-> 0, late |-> 0, releases |-> 0, steps |-> 0,
     failedAt |-> 0]

(* cv2.VideoWriter('output.avi', self.fourcc, 20.0, pyautogui.size()) *)
u_NewWriter(ok) ==
    [ok |-> ok, file |-> "output.avi", size |-> screen, fps |-> 20,
     frames |-> 0, bad |-> 0, late |-> 0, releases |-> 0, steps |-> 0,
     failedAt |-> 0]

u_Raise == u_app' = IF excMode = "abort" THEN "aborted" ELSE u_app

u_NoRaise == UNCHANGED u_app

u_record_frame(rec, ws, o, ts, cap) ==
    IF ~rec
    THEN /\ u_writers' = ws
         /\ u_timers' = ts
         /\ u_NoRaise
    ELSE IF cap = "raise"
    THEN /\ u_writers' = IF o = 0 THEN ws
                         ELSE [ws EXCEPT ![o].steps = @ + 1,
                                         ![o].failedAt = ws[o].steps + 1]
         /\ u_timers' = ts
         /\ u_Raise
    ELSE IF o = 0
    THEN /\ u_writers' = ws
         /\ u_timers' = ts
         /\ u_Raise
    ELSE /\ u_writers' = [ws EXCEPT ![o] = Write([@ EXCEPT !.steps = @ + 1], screen)]
         /\ u_timers' = Append(ts, TimerDelay)
         /\ u_NoRaise

u_start_recording(oc, cap) ==
    IF oc = "raise"
    THEN /\ UNCHANGED <<u_out, u_writers, u_timers>>
         /\ u_Raise
    ELSE LET dropped == u_out # 0 /\ IsOpened(u_writers[u_out])
             old == IF dropped THEN [u_writers EXCEPT ![u_out] = Release(@)]
                    ELSE u_writers
             ws == Append(old, u_NewWriter(oc = "ok"))
         IN  /\ u_out' = Len(ws)
             /\ u_record_frame(u_recording', ws, Len(ws), u_timers, cap)

u_stop_recording ==
    /\ u_writers' = IF u_out # 0 THEN [u_writers EXCEPT ![u_out] = Release(@)]
                    ELSE u_writers
    /\ u_NoRaise
    /\ UNCHANGED <<u_out, u_timers>>

u_toggle_recording(oc, cap) ==
    /\ u_app = "running"
    /\ u_recording' = ~u_recording
    /\ u_btnText' = IF u_recording' THEN "Stop Recording" ELSE "Start Recording"
    /\ IF u_recording'
       THEN u_start_recording(oc, cap)
       ELSE u_stop_recording

u_timer_fired(cap) ==
    /\ u_app = "running"
    /\ u_timers # <<>>
    /\ u_record_frame(u_recording, u_writers, u_out, Tail(u_timers), cap)
    /\ UNCHANGED <<u_recording, u_btnText, u_out>>

(* The same click on the record button of both programs, the library calls
   having the same outcomes in both *)
ToggleBoth(oc, cap) ==
    /\ toggle_recording(oc, cap)
    /\ u_toggle_recording(oc, cap)
    /\ UNCHANGED <<gtVars, spVars, envVars>>

(* The oldest single shot of both programs fires *)
TickBoth(cap) ==
    /\ timer_fired(cap)
    /\ u_timer_fired(cap)
    /\ UNCHANGED <<gtVars, spVars, envVars>>

(* The display mode changes, as when a game goes full screen *)
Resize(sz) ==
    /\ app = "running"
    /\ sz # screen
    /\ screen' = sz
    /\ resized' = TRUE
    /\ UNCHANGED <<recVars, gtVars, spVars, ubVars>>

NextEquiv ==
    \/ \E oc \in OpenOutcomes, cap \in CaptureOutcomes : ToggleBoth(oc, cap)
    \/ \E cap \in CaptureOutcomes : TickBoth(cap)
    \/ \E sz \in ScreenSizes : Resize(sz)

SpecEquiv == Init /\ [][NextEquiv]_vars

TypeOK ==
    /\ recording \in BOOLEAN
    /\ out \in 0..Len(writers)
    /\ app \in {"running", "exited", "aborted"}
    /\ errors \in 0..MaxErrors

----------------------------------------------------------------------------
(* Properties *)

Writers == 1..Len(writers)

(* C1: every writer opened by start_recording is released exactly once on
   every way its session ends: once recording has been toggled off, or the
   application has exited, no opened writer is unreleased, and no opened
   writer is ever released twice. *)
C1_ReleasedOnEveryExit ==
    /\ \A i \in Writers : writers[i].ok => writers[i].releases <= 1
    /\ (~recording \/ app = "exited") =>
           \A i \in Writers : writers[i].ok => writers[i].releases = 1

(* C2: when the capture of step k of a session has failed, the session has
   been finalized as by a normal stop: its writer is released once, the
   recording flag is false, the file holds the frames of steps 1..k-1 and
   exactly one error has been reported. *)
C2_FailedStepFinalizes ==
    \A i \in Writers :
        writers[i].failedAt >= 1 =>
            /\ writers[i].releases = 1
            /\ ~recording
            /\ writers[i].frames = writers[i].failedAt - 1
            /\ errors = 1

(* C3: a start request whose cv2.VideoWriter cannot be opened fails with an
   error and leaves the controller idle: the recording flag is false, the
   button does not read "Stop Recording" and no capture step is scheduled. *)
C3_FailedOpenStaysIdle ==
    [][(\E oc \in {"unopened", "raise"}, cap \in CaptureOutcomes :
            ~recording /\ ToggleRecording(oc, cap))
       => /\ ~recording'
          /\ btnText' # "Stop Recording"
          /\ timers' = timers
          /\ errors' = errors + 1]_vars

(* C4: at every moment at most one capture tick is pending. *)
C4_AtMostOnePendingTick == Len(timers) <= 1

(* C5: a capture step that hands a frame to the writer arms the next step
   after the period of the session's frame rate, 1000/fps milliseconds. *)
C5_DelayIsFramePeriod ==
    [][SumSteps(writers') > SumSteps(writers) /\ timers' # <<>> /\ out' # 0
       => Last(timers') = 1000 \div writers'[out'].fps]_vars

(* C6: every frame handed to a writer has the width and height the writer
   was opened with. *)
C6_FrameMatchesWriter == \A i \in Writers : writers[i].bad = 0

(* C7: every write performed by record_frame targets a writer that is open
   at that moment, never a released one and never one that was not opened. *)
C7_WriteTargetsOpenWriter == \A i \in Writers : writers[i].late = 0

(* C8: a click that arrives while a session is recording opens no writer;
   at most one opened, unreleased writer exists, it is the one in self.out,
   and self.out is never overwritten while it holds an open writer. *)
C8_SingleWriter ==
    /\ [](~replacedOpen /\ \A i \in Writers : IsOpened(writers[i]) => i = out)
    /\ [][recording => Len(writers') = Len(writers)]_vars

(* A second session has started after the first one's writer was released *)
C8_Witness ==
    /\ recording
    /\ Len(writers) = 2
    /\ out = 2
    /\ IsOpened(writers[2])
    /\ writers[1].ok
    /\ writers[1].releases = 1

(* The file a writer leaves on disk *)
FileOf(w) == [finalized |-> w.ok /\ w.releases >= 1, frames |-> w.frames]

(* C9: stop is synchronous: once toggle_recording has switched recording
   off, the writer in self.out has been released, and the file of a released
   writer never changes again. *)
C9_StopIsSynchronous ==
    /\ []((~recording /\ out # 0) => ~IsOpened(writers[out]))
    /\ [][\A i \in Writers :
              writers[i].releases >= 1 =>
                  /\ writers'[i].releases >= 1
                  /\ FileOf(writers'[i]) = FileOf(writers[i])]_vars

(* A start immediately followed by a stop, the tick armed by the start having
   fired after the stop: the writer is released and holds the one frame of
   the completed step *)
C9_Witness ==
    /\ ~recording
    /\ out = 1
    /\ writers[1].ok
    /\ writers[1].releases = 1
    /\ writers[1].steps = 1
    /\ writers[1].frames = 1
    /\ timers = <<>>

(* C10: stop_recording is idempotent: run twice in a row it leaves the same
   writers open and the same files as run once, and run when self.out was
   never set it changes nothing; it raises in neither case. *)
C10_StopIdempotent ==
    LET r1 == stop_result(writers, out)
        r2 == stop_result(r1.writers, out)
    IN  /\ ~r1.raised
        /\ ~r2.raised
        /\ Len(r2.writers) = Len(r1.writers)
        /\ \A i \in Writers :
               /\ FileOf(r2.writers[i]) = FileOf(r1.writers[i])
               /\ IsOpened(r2.writers[i]) = IsOpened(r1.writers[i])
        /\ (out = 0 => r1.writers = writers)

(* stop_recording has run twice in a row on the same writer (the start
   between them raised before self.out was assigned) *)
C10_Witness ==
    \E i \in Writers :
        /\ writers[i].ok
        /\ writers[i].releases = 2
        /\ writers[i].frames >= 1

(* C11: the recording configuration is immutable while a session is
   recording: no step taken between toggle-on and toggle-off changes the
   file name, the resolution, the frame rate or the quality. *)
C11_ConfigFrozenWhileRecording ==
    [][(recording /\ recording') => cfgVars' = cfgVars]_vars

(* The handler that made this step ran a capture step whose write returned *)
WriteReturned == SumSteps(writers') = SumSteps(writers) + 1 /\ errors' = errors

(* C12: capture steps are strictly sequential: a handler arms at most one
   tick, and only after the write of its own step has returned; this holds
   for the step run inside the start request and for every tick, the ticks
   that fire inside the configuration dialog's event loop included. *)
C12_ArmedOnlyAfterWrite ==
    [][/\ (\E oc \in OpenOutcomes, cap \in CaptureOutcomes : ToggleRecording(oc, cap))
          => /\ Len(timers') <= Len(timers) + 1
             /\ Len(timers') = Len(timers) + 1
                    => WriteReturned
       /\ (\E cap \in CaptureOutcomes : Tick(cap))
          => /\ Len(timers') <= Len(timers)
             /\ Len(timers') = Len(timers)
                    => WriteReturned]_vars

(* A tick has fired inside the dialog's event loop while an earlier tick
   chain was still alive: two chains, three completed steps *)
C12_Witness ==
    /\ dialogOpen
    /\ recording
    /\ Len(timers) = 2
    /\ SumSteps(writers) = 3
    /\ errors = 0

(* C13: when the capture of a step of a session has raised, the scheduler
   stops: the failing step leaves no tick pending, and no further capture
   step is run with that session's writer. *)
C13_FailedStepStopsScheduler ==
    [][\A i \in Writers :
           /\ (writers[i].failedAt = 0 /\ writers'[i].failedAt >= 1)
                  => timers' = <<>>
           /\ writers[i].failedAt >= 1
                  => writers'[i].steps = writers[i].steps]_vars

(* C14: the file of a session whose writer was opened holds exactly one
   frame per executed capture step, none dropped or duplicated: after N
   successful steps it holds N frames. *)
C14_OneFramePerStep ==
    \A i \in Writers :
        (writers[i].ok /\ writers[i].failedAt = 0)
            => writers[i].frames = writers[i].steps

(* C15: deactivation stops scheduling: while recording stays off no capture
   and no write is performed and no tick is armed (a tick that was pending
   runs as a no-op), and once recording is off eventually no tick is pending,
   unless recording is toggled on again or the application ends. *)
C15_DeactivationStopsScheduling ==
    /\ [][(~recording /\ ~recording')
              => /\ writers' = writers
                 /\ Len(timers') <= Len(timers)]_vars
    /\ [](~recording => <>(timers = <<>> \/ recording \/ app # "running"))

(* Two sessions were started and stopped; both leftover ticks have fired
   without effect *)
C15_Witness ==
    /\ ~recording
    /\ app = "running"
    /\ Len(writers) = 2
    /\ SumSteps(writers) = 2
    /\ writers[1].frames = 1
    /\ writers[2].frames = 1
    /\ timers = <<>>

(* C16: the stored recording configuration always satisfies the validation
   ranges: non-empty file name, positive width and height, frame rate in
   1..120, quality in 1..100. *)
C16_ConfigInRanges ==
    /\ record_file_name # ""
    /\ record_resolution[1] > 0
    /\ record_resolution[2] > 0
    /\ record_fps \in 1..120
    /\ record_quality \in 1..100

(* C17: the quality is stored and retrievable unchanged and is inert: an
   accepted dialog stores the quality the user entered, the next dialog is
   pre-filled with the stored quality, a step that changes the quality
   changes nothing of the recording, and a writer is opened with the stored
   file name, resolution and frame rate and with nothing else. *)
C17_QualityStoredAndInert ==
    [][/\ DialogAcceptEdited
          => /\ record_quality' \in QualityEdits \cup {dlg.quality}
             /\ record_quality' \in SpinQualityMin..SpinQualityMax
       /\ OpenRecordConfig => dlg'.quality = record_quality
       /\ record_quality' # record_quality
          => UNCHANGED <<recording, btnText, out, writers, timers>>
       /\ Len(writers') > Len(writers)
          => /\ Last(writers').file = record_file_name
             /\ Last(writers').size = record_resolution
             /\ Last(writers').fps = record_fps]_vars

(* A session was started after the user had set the quality to 100 (and
   cleared the file name), and the dialog, opened again during that session,
   shows 100 *)
C17_Witness ==
    /\ dialogOpen
    /\ dlg.quality = 100
    /\ record_quality = 100
    /\ recording
    /\ Len(writers) = 2
    /\ writers[1].file = DefaultFileName
    /\ writers[2].file = ""
    /\ writers[2].steps >= 1

(* C18: whenever control is back in the event loop, the recording flag is
   true exactly when self.out holds an opened, not yet released writer, and
   the button reads "Stop Recording" exactly when the flag is true. *)
C18_FlagMatchesWriter ==
    app = "running" =>
        /\ recording <=> (out # 0 /\ IsOpened(writers[out]))
        /\ (btnText = "Stop Recording") <=> recording

(* C19: while the recording flag is true and no capture step has failed, a
   next capture step is pending; and the start request has run the first
   capture step and handed its frame to the writer before it returns. *)
C19_NextStepPending ==
    (app = "running" /\ recording /\ \A i \in Writers : writers[i].failedAt = 0)
        => /\ timers # <<>>
           /\ out # 0
           /\ writers[out].steps >= 1

(* C20: start_timer called while the timer runs changes nothing: the elapsed
   time, the flag, the label and the pending timeout of the 1000 ms interval
   stay as they are; called while it does not run it starts a full interval;
   and in every state is_running is true exactly when the Qt timer is active *)
C20_StartWhileRunningIsNoOp ==
    /\ [][start_timer => IF is_running
                         THEN UNCHANGED timerState
                         ELSE /\ is_running' /\ qtActive'
                              /\ qtRemaining' = TimerInterval
                              /\ UNCHANGED <<elapsed_time, time_label>>]_vars
    /\ [](is_running <=> qtActive)

C20_Witness ==
    /\ startIgnored
    /\ is_running
    /\ qtActive
    /\ qtRemaining = TimeQuantum
    /\ elapsed_time = 2

(* C21: stop_timer, called while the timer is running, paused or never
   started, leaves elapsed_time = 0, is_running false, the Qt timer stopped
   and the label "00:00:00", and this stays so until the next start_timer:
   no timeout increments elapsed_time in between *)
C21_StopResets ==
    /\ [][stop_timer => /\ elapsed_time' = 0
                        /\ ~is_running'
                        /\ ~qtActive'
                        /\ time_label' = <<"0", "0", ":", "0", "0", ":", "0", "0">>]_vars
    /\ [](stoppedFrom # "none"
            => /\ elapsed_time = 0
               /\ ~is_running
               /\ ~qtActive
               /\ time_label = <<"0", "0", ":", "0", "0", ":", "0", "0">>)

C21_Witness ==
    /\ stoppedFrom = "running"
    /\ startIgnored
    /\ elapsed_time = 0
    /\ time_label = <<"0", "0", ":", "0", "0", ":", "0", "0">>

(* The number a sequence of decimal digit characters reads as *)
DigitValue(c) == CHOOSE n \in 0..9 : Digit(n) = c

RECURSIVE NumberOf(_)
NumberOf(cs) ==
    IF cs = <<>> THEN 0
    ELSE 10 * NumberOf(SubSeq(cs, 1, Len(cs) - 1)) + DigitValue(cs[Len(cs)])

IsDigits(cs) == \A i \in 1..Len(cs) : \E n \in 0..9 : Digit(n) = cs[i]

(* The label read back as hours:minutes:seconds, the hours taking every
   character before the last six *)
LabelHours == SubSeq(time_label, 1, Len(time_label) - 6)
LabelMinutes == SubSeq(time_label, Len(time_label) - 4, Len(time_label) - 3)
LabelSeconds == SubSeq(time_label, Len(time_label) - 1, Len(time_label))

(* C22: pause_timer keeps elapsed_time and nothing increments it while the
   timer is paused; start_timer keeps it too, so counting resumes from the
   retained value; elapsed_time changes only by +1 on a timeout while
   is_running, or to 0 on stop_timer; and the label always reads as
   HH:MM:SS of elapsed_time, minutes and seconds below 60 *)
C22_ElapsedAndLabel ==
    /\ [][/\ pause_timer => (elapsed_time' = elapsed_time /\ ~is_running')
          /\ start_timer => elapsed_time' = elapsed_time
          /\ ~is_running => elapsed_time' \in {elapsed_time, 0}
          /\ elapsed_time' # elapsed_time
               => \/ update_timer /\ is_running /\ elapsed_time' = elapsed_time + 1
                  \/ stop_timer /\ elapsed_time' = 0]_vars
    /\ [](/\ Len(time_label) >= 8
          /\ time_label[Len(time_label) - 5] = ":"
          /\ time_label[Len(time_label) - 2] = ":"
          /\ IsDigits(LabelHours) /\ IsDigits(LabelMinutes) /\ IsDigits(LabelSeconds)
          /\ NumberOf(LabelMinutes) < 60
          /\ NumberOf(LabelSeconds) < 60
          /\ 3600 * NumberOf(LabelHours) + 60 * NumberOf(LabelMinutes)
                 + NumberOf(LabelSeconds) = elapsed_time)

C22_Witness ==
    /\ resumed
    /\ is_running
    /\ elapsed_time = 3661
    /\ time_label = <<"0", "1", ":", "0", "1", ":", "0", "1">>

(* C23: a message set by show_error is erased only once it has been on the
   status label for the full 3000 ms: the single shot armed by an earlier
   show_error never clears the message of a later one *)
C23_MessageStaysFullDuration ==
    [][(status_label # "" /\ status_label' = "") => labelAge >= ErrorDuration]_vars

(* The operations a writer has seen: its open parameters, the capture steps
   run on it (each but a failed one calls write) and its releases *)
WriterOps(w) ==
    [file |-> w.file, size |-> w.size, fps |-> w.fps, opened |-> w.ok,
     steps |-> w.steps, failedAt |-> w.failedAt, releases |-> w.releases]

OpsOf(ws) == [i \in 1..Len(ws) |-> WriterOps(ws[i])]

Equivalent ==
    /\ u_recording = recording
    /\ u_btnText = btnText
    /\ OpsOf(u_writers) = OpsOf(writers)

(* C24, as stated: with the configuration never edited, after every sequence
   of toggle clicks and timer firings both controllers have the same flag
   and button text and have performed the same writer operations *)
C24_ControllersEquivalent == Equivalent

(* C24, amended: the same, as long as the screen size has not changed since
   the overlays were constructed *)
C24_EquivalentOnUnchangedScreen == ~resized => Equivalent /\ u_writers = writers

C24_Witness ==
    /\ ~resized
    /\ ~recording
    /\ Len(writers) = 2
    /\ writers[1].frames = 2
    /\ writers[1].releases = 1
    /\ writers[2].frames = 1
    /\ writers[2].releases = 1
    /\ writers[2].file = "output.avi"
    /\ u_writers = writers

====
